---------------------------- MODULE Spec2Model ----------------------------
(***************************************************************************)
(* A model of clean_rdf.py: the per-file repair pipeline (oracle check,    *)
(* statement reassembly, IRI sanitization, changelog) and the traversal    *)
(* that drives it.  Text is a sequence of one-character strings, so that   *)
(* percent-encoding, trimming and line splitting are computed character    *)
(* by character as the code computes them.                                 *)
(***************************************************************************)
EXTENDS Integers, Sequences, FiniteSets, TLC

VARIABLES
    numFiles,       \* number of supported files os.walk yields (traverse_dataset)
    fileIdx,        \* index of the file traverse_dataset is at (0: none yet)
    pc,             \* position of the run
    processed,      \* files process_file was called on
    failed,         \* files whose processing raised an I/O failure
    exitCode,       \* process exit status (-1 while running)
    input,          \* content of the current input file
    output,         \* content of the current output file
    changelog,      \* the written .changelog.json (NoFile until written)
    changes,        \* process_file's changes dictionary
    buffer,         \* process_file's accumulator
    line_number,    \* enumerate() index of the last physical line read
    full_line,      \* last reassembled statement
    fixed_line,     \* last statement after fix_iri
    emitted,        \* history: statements handed to fix_iri, with their line
    oracle,         \* history: outcomes of the oracle calls for this file
    cleanPasses,    \* history: times the cleaning pass started for this file
    stages,         \* history: pipeline stages entered for this file
    logged,         \* ERROR "unbalanced/multiline structure" was logged
    san,            \* driver: results of successive sanitize_iri applications
    fix             \* driver: results of successive fix_iri applications

vars == <<numFiles, fileIdx, pc, processed, failed, exitCode, input, output,
          changelog, changes, buffer, line_number, full_line, fixed_line,
          emitted, oracle, cleanPasses, stages, logged, san, fix>>

-----------------------------------------------------------------------------
(* Bounds of the model *)

MaxFiles == 2
MaxLen == 4
MaxStmtLen == 3
MaxCoreLen == 6
MaxLineNo == 2

-----------------------------------------------------------------------------
(* Text helpers *)

Strs(S, n) == UNION {[1..k -> S] : k \in 0..n}

\* str.strip() / str.rstrip(): Python's ASCII whitespace
Whitespace == {" ", "\t", "\n", "\r", "\f"}

RECURSIVE rstrip(_, _)
rstrip(s, chars) ==
    IF Len(s) > 0 /\ s[Len(s)] \in chars
    THEN rstrip(SubSeq(s, 1, Len(s) - 1), chars)
    ELSE s

RECURSIVE lstrip(_, _)
lstrip(s, chars) ==
    IF Len(s) > 0 /\ s[1] \in chars
    THEN lstrip(SubSeq(s, 2, Len(s)), chars)
    ELSE s

strip(s) == lstrip(rstrip(s, Whitespace), Whitespace)

endswith(s, c) == Len(s) > 0 /\ s[Len(s)] = c

\* Iterating a text file: each line keeps its "\n"; a last line without one
\* is yielded when non-empty.
RECURSIVE readlines(_)
readlines(content) ==
    IF content = <<>> THEN <<>>
    ELSE IF \E i \in 1..Len(content) : content[i] = "\n"
         THEN LET i == CHOOSE k \in 1..Len(content) :
                           /\ content[k] = "\n"
                           /\ \A j \in 1..(k - 1) : content[j] # "\n"
              IN  <<SubSeq(content, 1, i)>>
                      \o readlines(SubSeq(content, i + 1, Len(content)))
         ELSE <<content>>

-----------------------------------------------------------------------------
(* IRI sanitization *)

\* U+0060 cannot be written inside a TLA+ string; this token stands for it.
BACKTICK == "backtick"

ILLEGAL_IRI_CHARS ==
    (" "  :> <<"%", "2", "0">>) @@
    ("\"" :> <<"%", "2", "2">>) @@
    ("<"  :> <<"%", "3", "C">>) @@
    (">"  :> <<"%", "3", "E">>) @@
    ("{"  :> <<"%", "7", "B">>) @@
    ("}"  :> <<"%", "7", "D">>) @@
    ("|"  :> <<"%", "7", "C">>) @@
    ("^"  :> <<"%", "5", "E">>) @@
    (BACKTICK :> <<"%", "6", "0">>)

\* the part appended for char by a loop that also escapes the escape character
sanitize_char_pct(char) ==
    IF char = "%" THEN <<"%", "2", "5">>
    ELSE IF char \in DOMAIN ILLEGAL_IRI_CHARS
         THEN ILLEGAL_IRI_CHARS[char]
         ELSE <<char>>

\* one iteration of sanitize_iri's loop: the part appended for char
sanitize_char(char) ==
    IF char \in DOMAIN ILLEGAL_IRI_CHARS
    THEN ILLEGAL_IRI_CHARS[char]
    ELSE <<char>>

RECURSIVE sanitize_loop(_, _, _, _)
sanitize_loop(iri, k, parts, modified) ==
    IF k > Len(iri) THEN [cleaned |-> parts, modified |-> modified]
    ELSE sanitize_loop(iri, k + 1, parts \o sanitize_char(iri[k]),
                       modified \/ iri[k] \in DOMAIN ILLEGAL_IRI_CHARS)

sanitize_iri(iri) == sanitize_loop(iri, 1, <<>>, FALSE)

EmptyChanges ==
    [iri_sanitized    |-> [count |-> 0, details |-> <<>>],
     multiline_merged |-> [count |-> 0, details |-> <<>>]]

\* IRI_PATTERN = <([^>]*)> tried at position pos: the index of the closing
\* ">" of the match starting there, 0 when there is no match at pos.
IRI_PATTERN_match(line, pos) ==
    IF line[pos] = "<" /\ \E j \in (pos + 1)..Len(line) : line[j] = ">"
    THEN CHOOSE j \in (pos + 1)..Len(line) :
             /\ line[j] = ">"
             /\ \A k \in (pos + 1)..(j - 1) : line[k] # ">"
    ELSE 0

\* fix_iri's replacer with one entry per replaced character
replacer_per_char(original, chg, ln) ==
    LET r == sanitize_iri(original)
        n == Cardinality({k \in 1..Len(original) :
                             original[k] \in DOMAIN ILLEGAL_IRI_CHARS})
        e == [line |-> ln, before |-> original, after |-> r.cleaned]
    IN  [text |-> <<"<">> \o r.cleaned \o <<">">>,
         changes |-> [chg EXCEPT
             !.iri_sanitized.count = @ + n,
             !.iri_sanitized.details = @ \o [i \in 1..n |-> e]]]

\* fix_iri's replacer recording the entry at a line number one too small
replacer_line_off(original, chg, ln) ==
    LET r == sanitize_iri(original)
    IN  [text |-> <<"<">> \o r.cleaned \o <<">">>,
         changes |->
             IF r.modified
             THEN [chg EXCEPT
                      !.iri_sanitized.count = @ + 1,
                      !.iri_sanitized.details =
                          Append(@, [line |-> ln - 1, before |-> original,
                                     after |-> r.cleaned])]
             ELSE chg]

replacer(original, chg, ln) ==
    LET r == sanitize_iri(original)
    IN  [text |-> <<"<">> \o r.cleaned \o <<">">>,
         changes |->
             IF r.modified
             THEN [chg EXCEPT
                      !.iri_sanitized.count = @ + 1,
                      !.iri_sanitized.details =
                          Append(@, [line |-> ln, before |-> original,
                                     after |-> r.cleaned])]
             ELSE chg]

\* IRI_PATTERN.sub(replacer, line), scanning from pos
RECURSIVE sub(_, _, _, _, _)
sub(line, pos, out, chg, ln) ==
    IF pos > Len(line) THEN [line |-> out, changes |-> chg]
    ELSE LET j == IRI_PATTERN_match(line, pos)
         IN  IF j > 0
             THEN LET r == replacer(SubSeq(line, pos + 1, j - 1), chg, ln)
                  IN  sub(line, j + 1, out \o r.text, r.changes, ln)
             ELSE sub(line, pos + 1, Append(out, line[pos]), chg, ln)

fix_iri(line, chg, ln) == sub(line, 1, <<>>, chg, ln)

-----------------------------------------------------------------------------
(* Validation *)

\* what subprocess.run can do: exit status 0, another exit status,
\* FileNotFoundError (no rapper), TimeoutExpired
OracleOutcomes == {"exit0", "nonzero", "missing", "timeout"}

validate_with_rapper(outcome) == outcome = "exit0"

-----------------------------------------------------------------------------
(* Input files *)

FileAlphabet == {"a", " ", ".", "<", ">", "\n"}

\* ":a :b :c" / "    ." : a statement split over two lines
SplitStatement ==
    <<":", "a", " ", ":", "b", " ", ":", "c", "\n",
      " ", " ", " ", " ", ".", "\n">>

\* "<a b> <c>" / "<d|e> ." / "<f g>" : a merged statement with three IRIs,
\* then a dangling tail holding an IRI with a reserved character
MergedThenTail ==
    <<"<", "a", " ", "b", ">", " ", "<", "c", ">", "\n",
      "<", "d", "|", "e", ">", " ", ".", "\n",
      "<", "f", " ", "g", ">">>

\* "<a> <b> <c> ." / "<a> <b> <d> ." : nothing to repair
CleanFile ==
    <<"<", "a", ">", " ", "<", "b", ">", " ", "<", "c", ">", " ", ".", "\n",
      "<", "a", ">", " ", "<", "b", ">", " ", "<", "d", ">", " ", ".", "\n">>

Contents ==
    Strs(FileAlphabet, MaxLen) \cup {SplitStatement, MergedThenTail, CleanFile}

NoFile == <<>>
File(content) == <<content>>

-----------------------------------------------------------------------------
(* process_file *)

\* the test of line 240 on the line without its newline
is_continuation_untrimmed(stripped) == ~endswith(stripped, ".")

is_continuation(stripped) == ~endswith(strip(stripped), ".")

continue_buffer(buf, stripped) == buf \o stripped \o <<" ">>

\* the merge test comparing the trimmed texts
was_merged_trimmed(full, stripped) == strip(full) # strip(stripped)

was_merged(full, stripped) == full # stripped

\* the merge bookkeeping that counts the statement but appends no detail
record_merge_no_detail(chg, ln, full) ==
    [chg EXCEPT !.multiline_merged.count = @ + 1]

record_merge(chg, ln, full) ==
    [chg EXCEPT
        !.multiline_merged.count = @ + 1,
        !.multiline_merged.details =
            Append(@, [line |-> ln, merged_triple |-> strip(full)])]

Init ==
    /\ numFiles \in 1..MaxFiles
    /\ fileIdx = 0
    /\ pc = "traverse"
    /\ processed = {}
    /\ failed = {}
    /\ exitCode = -1
    /\ input = <<>>
    /\ output = NoFile
    /\ changelog = NoFile
    /\ changes = EmptyChanges
    /\ buffer = <<>>
    /\ line_number = 0
    /\ full_line = <<>>
    /\ fixed_line = <<>>
    /\ emitted = <<>>
    /\ oracle = <<>>
    /\ cleanPasses = 0
    /\ stages = <<>>
    /\ logged = FALSE
    /\ san = <<>>
    /\ fix = <<>>

\* traverse_dataset calls process_file on the next file: lines 193-200
ProcessFileStart ==
    /\ pc = "traverse"
    /\ fileIdx < numFiles
    /\ fileIdx' = fileIdx + 1
    /\ processed' = processed \cup {fileIdx + 1}
    /\ \E content \in Contents : input' = content
    /\ output' = NoFile
    /\ changelog' = NoFile
    /\ changes' = EmptyChanges
    /\ buffer' = <<>>
    /\ line_number' = 0
    /\ full_line' = <<>>
    /\ fixed_line' = <<>>
    /\ emitted' = <<>>
    /\ oracle' = <<>>
    /\ cleanPasses' = 0
    /\ stages' = <<"START">>
    /\ logged' = FALSE
    /\ pc' = "check"
    /\ UNCHANGED <<numFiles, failed, exitCode, san, fix>>

\* Step 1, line 203
FirstCheck ==
    /\ pc = "check"
    /\ \E o \in OracleOutcomes :
          /\ oracle' = Append(oracle, o)
          /\ pc' = IF validate_with_rapper(o) THEN "copy" ELSE "clean"
          /\ stages' = Append(stages,
                 IF validate_with_rapper(o) THEN "VALID" ELSE "INVALID")
    /\ UNCHANGED <<numFiles, fileIdx, processed, failed, exitCode, input,
                   output, changelog, changes, buffer, line_number, full_line,
                   fixed_line, emitted, cleanPasses, logged, san, fix>>

\* the copy branch writing the file back line by line, newline-terminated
CopyNormalized ==
    /\ pc = "copy"
    /\ output' = File(IF input = <<>> \/ endswith(input, "\n")
                      THEN input ELSE Append(input, "\n"))
    /\ changes' = EmptyChanges
    /\ changelog' = File(EmptyChanges)
    /\ pc' = "done"
    /\ stages' = Append(stages, "DONE")
    /\ UNCHANGED <<numFiles, fileIdx, processed, failed, exitCode, input,
                   buffer, line_number, full_line, fixed_line, emitted,
                   oracle, cleanPasses, logged, san, fix>>

\* lines 204-213
CopyUnchanged ==
    /\ pc = "copy"
    /\ output' = File(input)
    /\ changes' = EmptyChanges
    /\ changelog' = File(EmptyChanges)
    /\ pc' = "done"
    /\ stages' = Append(stages, "DONE")
    /\ UNCHANGED <<numFiles, fileIdx, processed, failed, exitCode, input,
                   buffer, line_number, full_line, fixed_line, emitted,
                   oracle, cleanPasses, logged, san, fix>>

\* Step 2, lines 216-233
StartCleaning ==
    /\ pc = "clean"
    /\ changes' = EmptyChanges
    /\ buffer' = <<>>
    /\ line_number' = 0
    /\ output' = File(<<>>)
    /\ cleanPasses' = cleanPasses + 1
    /\ pc' = "loop"
    /\ UNCHANGED <<numFiles, fileIdx, processed, failed, exitCode, input,
                   changelog, full_line, fixed_line, emitted, oracle, stages,
                   logged, san, fix>>

\* one iteration of the loop of line 235
ReadLine ==
    /\ pc = "loop"
    /\ line_number < Len(readlines(input))
    /\ LET n == line_number + 1
           line == readlines(input)[n]
           stripped == rstrip(line, {"\n"})
       IN  /\ line_number' = n
           /\ IF is_continuation(stripped)
              THEN /\ buffer' = continue_buffer(buffer, stripped)
                   /\ UNCHANGED <<full_line, fixed_line, changes, output,
                                  emitted>>
              ELSE LET full == buffer \o stripped
                       chg == IF was_merged(full, stripped)
                              THEN record_merge(changes, n, full)
                              ELSE changes
                       r == fix_iri(full, chg, n)
                   IN  /\ full_line' = full
                       /\ buffer' = <<>>
                       /\ changes' = r.changes
                       /\ fixed_line' = r.line
                       /\ output' = File(output[1] \o r.line \o <<"\n">>)
                       /\ emitted' = Append(emitted,
                              [line |-> n, statement |-> full,
                               acc |-> buffer])
    /\ UNCHANGED <<numFiles, fileIdx, processed, failed, exitCode, input,
                   changelog, oracle, cleanPasses, stages, logged, pc, san,
                   fix>>

\* the end of input that flushes the accumulator as a last statement
EndOfInputFlush ==
    /\ pc = "loop"
    /\ line_number = Len(readlines(input))
    /\ logged' = (buffer # <<>>)
    /\ LET r == fix_iri(buffer, changes, line_number)
       IN  IF buffer # <<>>
           THEN /\ output' = File(output[1] \o r.line \o <<"\n">>)
                /\ changes' = r.changes
                /\ changelog' = File(r.changes)
           ELSE /\ changelog' = File(changes)
                /\ UNCHANGED <<output, changes>>
    /\ pc' = "postcheck"
    /\ UNCHANGED <<numFiles, fileIdx, processed, failed, exitCode, input,
                   buffer, line_number, full_line, fixed_line, emitted,
                   oracle, cleanPasses, stages, san, fix>>

\* the loop is exhausted: lines 265-274
EndOfInput ==
    /\ pc = "loop"
    /\ line_number = Len(readlines(input))
    /\ logged' = (buffer # <<>>)
    /\ changelog' = File(changes)
    /\ pc' = "postcheck"
    /\ UNCHANGED <<numFiles, fileIdx, processed, failed, exitCode, input,
                   output, changes, buffer, line_number, full_line,
                   fixed_line, emitted, oracle, cleanPasses, stages, san, fix>>

\* a post-clean check that cleans again when the output is still invalid
PostCheckRetry ==
    /\ pc = "postcheck"
    /\ \E o \in OracleOutcomes :
          /\ oracle' = Append(oracle, o)
          /\ IF validate_with_rapper(o) \/ cleanPasses > 1
             THEN pc' = "done" /\ stages' = Append(stages, "DONE")
             ELSE pc' = "clean" /\ stages' = Append(stages, "INVALID")
    /\ UNCHANGED <<numFiles, fileIdx, processed, failed, exitCode, input,
                   output, changelog, changes, buffer, line_number, full_line,
                   fixed_line, emitted, cleanPasses, logged, san, fix>>

\* line 277: the result is dropped
PostCheck ==
    /\ pc = "postcheck"
    /\ \E o \in OracleOutcomes :
          /\ oracle' = Append(oracle, o)
    /\ pc' = "done"
    /\ stages' = Append(stages, "DONE")
    /\ UNCHANGED <<numFiles, fileIdx, processed, failed, exitCode, input,
                   output, changelog, changes, buffer, line_number, full_line,
                   fixed_line, emitted, cleanPasses, logged, san, fix>>

\* process_file returns (line 213, or after line 277) and its locals go out
\* of scope; traverse_dataset's loop goes on
Return ==
    /\ pc = "done"
    /\ pc' = "traverse"
    /\ input' = <<>>
    /\ output' = NoFile
    /\ changelog' = NoFile
    /\ changes' = EmptyChanges
    /\ buffer' = <<>>
    /\ line_number' = 0
    /\ full_line' = <<>>
    /\ fixed_line' = <<>>
    /\ emitted' = <<>>
    /\ oracle' = <<>>
    /\ cleanPasses' = 0
    /\ stages' = <<>>
    /\ logged' = FALSE
    /\ UNCHANGED <<numFiles, fileIdx, processed, failed, exitCode, san, fix>>

\* os.makedirs (line 200) raises: nothing catches it in process_file,
\* traverse_dataset or main, so the interpreter exits with status 1
MakedirsFailure ==
    /\ pc = "traverse"
    /\ fileIdx < numFiles
    /\ fileIdx' = fileIdx + 1
    /\ processed' = processed \cup {fileIdx + 1}
    /\ failed' = failed \cup {fileIdx + 1}
    /\ pc' = "crashed"
    /\ exitCode' = 1
    /\ UNCHANGED <<numFiles, input, output, changelog, changes, buffer,
                   line_number, full_line, fixed_line, emitted, oracle,
                   cleanPasses, stages, logged, san, fix>>

\* copy2/open/read/write (lines 205, 211, 219, 232-233, 256, 269) raises
IOFailure ==
    /\ pc \in {"copy", "clean", "loop"}
    /\ failed' = failed \cup {fileIdx}
    /\ pc' = "crashed"
    /\ exitCode' = 1
    /\ UNCHANGED <<numFiles, fileIdx, processed, input, output, changelog,
                   changes, buffer, line_number, full_line, fixed_line,
                   emitted, oracle, cleanPasses, stages, logged, san, fix>>

\* the walk is exhausted: traverse_dataset returns, main logs and returns
Finish ==
    /\ pc = "traverse"
    /\ fileIdx = numFiles
    /\ pc' = "finished"
    /\ exitCode' = 0
    /\ UNCHANGED <<numFiles, fileIdx, processed, failed, input, output,
                   changelog, changes, buffer, line_number, full_line,
                   fixed_line, emitted, oracle, cleanPasses, stages, logged,
                   san, fix>>

Next ==
    \/ ProcessFileStart
    \/ FirstCheck
    \/ CopyUnchanged
    \/ StartCleaning
    \/ ReadLine
    \/ EndOfInput
    \/ PostCheck
    \/ Return
    \/ MakedirsFailure
    \/ IOFailure
    \/ Finish

Spec == Init /\ [][Next]_vars

-----------------------------------------------------------------------------
(* sanitize_iri and fix_iri applied to bounded statements: each is applied *)
(* to a drawn statement and then to its own result.                        *)

IriAlphabet == DOMAIN ILLEGAL_IRI_CHARS \cup {"a", "%", "."}
CoreAlphabet == {"<", ">", " ", "a"}

Statements == Strs(IriAlphabet, MaxStmtLen) \cup Strs(CoreAlphabet, MaxCoreLen)

InitIri ==
    /\ numFiles = 0
    /\ fileIdx = 0
    /\ pc = "driver"
    /\ processed = {}
    /\ failed = {}
    /\ exitCode = -1
    /\ input = <<>>
    /\ output = NoFile
    /\ changelog = NoFile
    /\ changes = EmptyChanges
    /\ buffer = <<>>
    /\ line_number \in {1, MaxLineNo}
    /\ full_line \in Statements
    /\ fixed_line = <<>>
    /\ emitted = <<>>
    /\ oracle = <<>>
    /\ cleanPasses = 0
    /\ stages = <<>>
    /\ logged = FALSE
    /\ san = <<>>
    /\ fix = <<>>

ApplySanitize ==
    /\ pc = "driver"
    /\ Len(san) < 2
    /\ san' = Append(san, sanitize_iri(IF san = <<>> THEN full_line
                                       ELSE san[Len(san)].cleaned))
    /\ UNCHANGED <<numFiles, fileIdx, pc, processed, failed, exitCode, input,
                   output, changelog, changes, buffer, line_number, full_line,
                   fixed_line, emitted, oracle, cleanPasses, stages, logged,
                   fix>>

ApplyFix ==
    /\ pc = "driver"
    /\ Len(san) = 2
    /\ Len(fix) < 2
    /\ fix' = Append(fix,
                 IF fix = <<>>
                 THEN fix_iri(full_line, changes, line_number)
                 ELSE fix_iri(fix[Len(fix)].line, fix[Len(fix)].changes,
                              line_number))
    /\ UNCHANGED <<numFiles, fileIdx, pc, processed, failed, exitCode, input,
                   output, changelog, changes, buffer, line_number, full_line,
                   fixed_line, emitted, oracle, cleanPasses, stages, logged,
                   san>>

NextIri ==
    \/ ApplySanitize
    \/ ApplyFix

SpecIri == InitIri /\ [][NextIri]_vars

-----------------------------------------------------------------------------
(* What the properties are stated against: percent-encoding from code      *)
(* points, and the IRI references of a statement given by position.        *)

CodePoint ==
    (" " :> 32) @@ ("\"" :> 34) @@ ("<" :> 60) @@ (">" :> 62) @@
    ("{" :> 123) @@ ("}" :> 125) @@ ("|" :> 124) @@ ("^" :> 94) @@
    (BACKTICK :> 96)

HexDigit(n) ==
    <<"0", "1", "2", "3", "4", "5", "6", "7", "8", "9",
      "A", "B", "C", "D", "E", "F">>[n + 1]

PctEncode(c) ==
    <<"%", HexDigit(CodePoint[c] \div 16), HexDigit(CodePoint[c] % 16)>>

Reserved(c) == c \in DOMAIN CodePoint

\* i opens an IRI reference of t: a "<" with a ">" after it, and not inside
\* the reference opened by an earlier "<"
IriStarts(t) ==
    {i \in 1..Len(t) :
        /\ t[i] = "<"
        /\ \E j \in (i + 1)..Len(t) : t[j] = ">"
        /\ \A k \in 1..(i - 1) :
              t[k] = "<" => \E m \in (k + 1)..(i - 1) : t[m] = ">"}

IriEnd(t, i) ==
    CHOOSE j \in (i + 1)..Len(t) :
        t[j] = ">" /\ \A m \in (i + 1)..(j - 1) : t[m] # ">"

IriContent(t, i) == SubSeq(t, i + 1, IriEnd(t, i) - 1)

InIri(t, k) == \E i \in IriStarts(t) : i < k /\ k < IriEnd(t, i)

\* reserved characters of t strictly before position k (all of them, or
\* only those inside IRI references)
ReservedBefore(t, k) ==
    Cardinality({m \in 1..(k - 1) : Reserved(t[m])})

ReservedInIriBefore(t, k) ==
    Cardinality({m \in 1..(k - 1) : InIri(t, m) /\ Reserved(t[m])})

RECURSIVE EncodeAll(_, _)
EncodeAll(t, k) ==
    IF k > Len(t) THEN <<>>
    ELSE (IF Reserved(t[k]) THEN PctEncode(t[k]) ELSE <<t[k]>>)
             \o EncodeAll(t, k + 1)

RECURSIVE EncodeInIris(_, _)
EncodeInIris(t, k) ==
    IF k > Len(t) THEN <<>>
    ELSE (IF InIri(t, k) /\ Reserved(t[k]) THEN PctEncode(t[k]) ELSE <<t[k]>>)
             \o EncodeInIris(t, k + 1)

\* the IRI references of t in which a reserved character occurs
OffendingStarts(t) ==
    {i \in IriStarts(t) :
        \E k \in (i + 1)..(IriEnd(t, i) - 1) : Reserved(t[k])}

Rank(S, i) == Cardinality({x \in S : x <= i})

-----------------------------------------------------------------------------
(* Properties of the sanitizer, under SpecIri *)

\* C3: the reserved table is the nine characters; every occurrence of one of
\* them in an IRI content handed to sanitize_iri is replaced by "%" and the
\* two hex digits of its code point; and for every IRI reference of a
\* statement holding such a character, fix_iri puts the encoding at that
\* character's place and appends an entry with the line number it was given,
\* the content before and the encoded content after.
C3_ReservedTableComplete ==
    /\ DOMAIN ILLEGAL_IRI_CHARS = DOMAIN CodePoint
    /\ Len(san) >= 1 =>
          \A k \in 1..Len(full_line) :
              Reserved(full_line[k]) =>
                  /\ san[1].modified
                  /\ LET off == k + 2 * ReservedBefore(full_line, k)
                     IN  SubSeq(san[1].cleaned, off, off + 2)
                             = PctEncode(full_line[k])
    /\ Len(fix) >= 1 =>
          \A i \in IriStarts(full_line) :
              \A k \in (i + 1)..(IriEnd(full_line, i) - 1) :
                  Reserved(full_line[k]) =>
                      /\ LET off == k + 2 * ReservedInIriBefore(full_line, k)
                         IN  SubSeq(fix[1].line, off, off + 2)
                                 = PctEncode(full_line[k])
                      /\ \E n \in 1..Len(fix[1].changes.iri_sanitized.details) :
                            LET e == fix[1].changes.iri_sanitized.details[n]
                                c == IriContent(full_line, i)
                                at == (k - i) + 2 * ReservedBefore(c, k - i)
                            IN  /\ e.line = line_number
                                /\ e.before = c
                                /\ SubSeq(e.after, at, at + 2)
                                       = PctEncode(full_line[k])

C3_Witness ==
    /\ pc = "driver"
    /\ Len(fix) >= 1
    /\ full_line = <<"<", "^", ">">>
    /\ fix[1].line = <<"<", "%", "5", "E", ">">>
    /\ fix[1].changes.iri_sanitized.details
           = <<[line |-> line_number, before |-> <<"^">>,
                after |-> <<"%", "5", "E">>]>>

\* C7: sanitize_iri applied to its own result returns it unchanged and
\* reports no modification; fix_iri applied to its own result returns it
\* unchanged and appends no entry.
C7_SanitizeIdempotent ==
    /\ Len(san) = 2 =>
          /\ san[2].cleaned = san[1].cleaned
          /\ ~san[2].modified
    /\ Len(fix) = 2 =>
          /\ fix[2].line = fix[1].line
          /\ fix[2].changes = fix[1].changes

C7_Witness ==
    /\ pc = "driver"
    /\ Len(fix) = 2
    /\ san[1].modified
    /\ san[1].cleaned # full_line
    /\ fix[1].line # full_line
    /\ fix[1].changes.iri_sanitized.count = 1

\* C8: fix_iri appends one entry per IRI reference holding a reserved
\* character, none for the others, in left-to-right order of the references;
\* the result is the statement with the reserved characters inside IRI
\* references encoded in place, so every "<" and ">" delimiting a reference
\* and all text outside the references is as it was.
C8_OneEntryPerOffendingIri ==
    Len(fix) >= 1 =>
        LET t == full_line
            d == fix[1].changes.iri_sanitized.details
            S == OffendingStarts(t)
        IN  /\ Len(d) = Cardinality(S)
            /\ fix[1].changes.iri_sanitized.count = Cardinality(S)
            /\ \A i \in S :
                  d[Rank(S, i)] =
                      [line |-> line_number,
                       before |-> IriContent(t, i),
                       after |-> EncodeAll(IriContent(t, i), 1)]
            /\ fix[1].line = EncodeInIris(t, 1)
            /\ \A i \in IriStarts(t) :
                  /\ fix[1].line[i + 2 * ReservedInIriBefore(t, i)] = "<"
                  /\ LET j == IriEnd(t, i)
                     IN  fix[1].line[j + 2 * ReservedInIriBefore(t, j)] = ">"
            /\ fix[1].changes.multiline_merged = changes.multiline_merged

\* two IRI references, only the second offending: one entry
C8_Witness ==
    /\ pc = "driver"
    /\ Len(fix) >= 1
    /\ full_line = <<"<", "a", ">", "<", " ", ">">>
    /\ fix[1].line = <<"<", "a", ">", "<", "%", "2", "0", ">">>
    /\ fix[1].changes.iri_sanitized.count = 1

-----------------------------------------------------------------------------
(* Physical lines and statements, given by position *)

Chomp(line) ==
    IF Len(line) > 0 /\ line[Len(line)] = "\n"
    THEN SubSeq(line, 1, Len(line) - 1)
    ELSE line

\* the last character of the line that is not whitespace is "."
EndsStatement(line) ==
    \E i \in 1..Len(line) :
        /\ line[i] = "."
        /\ \A j \in (i + 1)..Len(line) : line[j] \in Whitespace

Terminators(L, upto) == {n \in 1..upto : EndsStatement(L[n])}

LastTerminator(L, upto) ==
    IF Terminators(L, upto) = {} THEN 0
    ELSE CHOOSE n \in Terminators(L, upto) :
             \A m \in Terminators(L, upto) : m <= n

\* lines a..b, each without its newline and followed by one space
RECURSIVE JoinContinuations(_, _, _)
JoinContinuations(L, a, b) ==
    IF a > b THEN <<>>
    ELSE Chomp(L[a]) \o <<" ">> \o JoinContinuations(L, a + 1, b)

\* lines 1..b, each ended by exactly one newline
RECURSIVE TerminatedLines(_, _)
TerminatedLines(L, b) ==
    IF b = 0 THEN <<>>
    ELSE TerminatedLines(L, b - 1) \o Chomp(L[b]) \o <<"\n">>

CountNewlines(t) == Cardinality({k \in 1..Len(t) : t[k] = "\n"})

Dangling(L) == L # <<>> /\ ~EndsStatement(L[Len(L)])

\* the output and the entries that a sequence of emitted statements accounts for
RECURSIVE OutputOf(_, _)
OutputOf(em, k) ==
    IF k > Len(em) THEN <<>>
    ELSE EncodeInIris(em[k].statement, 1) \o <<"\n">> \o OutputOf(em, k + 1)

IriEntriesOfStatement(t, ln) ==
    LET S == OffendingStarts(t)
    IN  [n \in 1..Cardinality(S) |->
            LET i == CHOOSE x \in S : Rank(S, x) = n
            IN  [line |-> ln, before |-> IriContent(t, i),
                 after |-> EncodeAll(IriContent(t, i), 1)]]

RECURSIVE IriEntriesOf(_, _)
IriEntriesOf(em, k) ==
    IF k > Len(em) THEN <<>>
    ELSE IriEntriesOfStatement(em[k].statement, em[k].line)
             \o IriEntriesOf(em, k + 1)

OnCleaningPath == pc \in {"loop", "postcheck", "done"} /\ cleanPasses = 1

Cleaned == pc \in {"postcheck", "done"} /\ cleanPasses = 1

RecordEmpty(rec) ==
    /\ rec.iri_sanitized.details = <<>>
    /\ rec.multiline_merged.details = <<>>

-----------------------------------------------------------------------------
(* Properties of the pipeline, under Spec *)

\* C1: when the first oracle check returns valid and process_file is done,
\* the output file equals the input, the written edit record has count 0 and
\* empty details in both categories, and neither the reassembly loop nor
\* fix_iri ran for the file.
C1_ValidPassThrough ==
    (pc = "done" /\ oracle[1] = "exit0") =>
        /\ output = File(input)
        /\ changelog # NoFile
        /\ changelog[1].iri_sanitized = [count |-> 0, details |-> <<>>]
        /\ changelog[1].multiline_merged = [count |-> 0, details |-> <<>>]
        /\ cleanPasses = 0
        /\ line_number = 0
        /\ emitted = <<>>
        /\ Len(oracle) = 1

C1_Witness ==
    /\ pc = "done"
    /\ oracle = <<"exit0">>
    /\ input = MergedThenTail
    /\ output = File(MergedThenTail)

\* C2: a run that has ended, ended normally (exit status 0) with
\* process_file called on every discovered file, whichever files raised an
\* I/O failure.
C2_BatchSurvivesIOFailure ==
    pc \in {"finished", "crashed"} =>
        /\ exitCode = 0
        /\ processed = 1..numFiles

\* C4: on the cleaning path an emitted statement has a multiline_merged entry
\* iff the accumulator was non-empty when its terminator line was read, iff
\* the line before it was a continuation line; the entry carries the
\* terminator's line number and there is exactly one per such statement.  The
\* file ":a :b :c" / "    ." ends with one statement and one entry, at line 2.
C4_MergedIffAccumulatorNonEmpty ==
    OnCleaningPath =>
        LET L == readlines(input)
            d == changes.multiline_merged.details
        IN  /\ changes.multiline_merged.count = Len(d)
            /\ \A k \in 1..Len(emitted) :
                  LET e == emitted[k]
                      hits == {m \in 1..Len(d) : d[m].line = e.line}
                  IN  /\ Cardinality(hits) = IF e.acc # <<>> THEN 1 ELSE 0
                      /\ (e.acc # <<>>) <=>
                             (e.line > 1 /\ ~EndsStatement(L[e.line - 1]))
            /\ \A m \in 1..Len(d) :
                  \E k \in 1..Len(emitted) : emitted[k].line = d[m].line
            /\ (Cleaned /\ input = SplitStatement) =>
                  /\ Len(emitted) = 1
                  /\ CountNewlines(output[1]) = 1
                  /\ Len(d) = 1
                  /\ d[1].line = 2

C4_Witness ==
    /\ pc = "done"
    /\ input = SplitStatement
    /\ changelog = File(changes)
    /\ changes.multiline_merged.count = 1
    /\ changes.multiline_merged.details[1].line = 2
    /\ changes.multiline_merged.details[1].merged_triple
           = <<":", "a", " ", ":", "b", " ", ":", "c", " ",
               " ", " ", " ", " ", ".">>

\* C5: when the cleaned input ends in continuation lines with no terminator
\* after them, the accumulator is non-empty at the end, the ERROR is logged
\* and nothing is raised; the output holds exactly the statements of the
\* terminator lines, one line each, and the written edit record holds
\* exactly the entries of those statements, none with a line number of the
\* tail.
C5_DanglingTailDropped ==
    (Cleaned /\ Dangling(readlines(input))) =>
        LET L == readlines(input)
            T == Terminators(L, Len(L))
            last == LastTerminator(L, Len(L))
        IN  /\ buffer # <<>>
            /\ logged
            /\ failed = {}
            /\ exitCode = -1
            /\ {emitted[k].line : k \in 1..Len(emitted)} = T
            /\ output = File(OutputOf(emitted, 1))
            /\ CountNewlines(output[1]) = Cardinality(T)
            /\ changelog = File(changes)
            /\ changes.iri_sanitized.details = IriEntriesOf(emitted, 1)
            /\ \A n \in 1..Len(changes.iri_sanitized.details) :
                  changes.iri_sanitized.details[n].line <= last
            /\ \A n \in 1..Len(changes.multiline_merged.details) :
                  changes.multiline_merged.details[n].line <= last

C5_Witness ==
    /\ pc = "done"
    /\ input = MergedThenTail
    /\ logged
    /\ CountNewlines(output[1]) = 1
    /\ changes.iri_sanitized.count = 2
    /\ changes.multiline_merged.count = 1

\* C6 as stated: the edit record of a processed file is empty iff the output
\* content equals the input content.
C6_EmptyIffOutputEqualsInput ==
    pc = "done" => (RecordEmpty(changelog[1]) <=> output = File(input))

\* C6 as amended: the edit record is empty iff no statement was merged and
\* no IRI rewritten (and then both counts are 0).  On the copy path it is
\* empty and the output equals the input.  On the cleaning path it is empty
\* iff the output is the input's lines up to the last terminator line, each
\* ended by one newline: a dropped dangling tail, or a newline added to an
\* unterminated last line, changes the output and leaves no entry.
C6_EmptyIffNoMergeNoRewrite ==
    pc = "done" =>
        LET rec == changelog[1]
            L == readlines(input)
        IN  /\ RecordEmpty(rec) <=>
                  (rec.iri_sanitized.count = 0
                       /\ rec.multiline_merged.count = 0)
            /\ cleanPasses = 0 =>
                  (RecordEmpty(rec) /\ output = File(input))
            /\ cleanPasses = 1 =>
                  /\ RecordEmpty(rec) <=>
                         \A k \in 1..Len(emitted) :
                             /\ emitted[k].acc = <<>>
                             /\ EncodeInIris(emitted[k].statement, 1)
                                    = emitted[k].statement
                  /\ RecordEmpty(rec) <=>
                         output = File(TerminatedLines(L,
                                           LastTerminator(L, Len(L))))

\* an empty record although the output lost the tail of the input
C6_Witness ==
    /\ pc = "done"
    /\ cleanPasses = 1
    /\ logged
    /\ RecordEmpty(changelog[1])
    /\ output # File(input)
    /\ Len(output[1]) < Len(input)

\* C9: the stages of a file are START, then VALID (first check exit status
\* 0) or INVALID (other status, no checker, timeout), then DONE, none entered
\* twice; the cleaning pass starts at most once; the oracle is called once on
\* the copy branch and at most twice, twice when done, on the cleaning
\* branch; and the post-clean check only ends the file: it leaves the output
\* file, the written record and the number of cleaning passes as they were.
C9_StagesOk ==
    /\ \/ stages = <<>>
       \/ \E p \in {<<"START", "VALID", "DONE">>, <<"START", "INVALID", "DONE">>} :
             \E n \in 1..3 : stages = SubSeq(p, 1, n)
    /\ cleanPasses <= 1
    /\ Len(oracle) <= 2
    /\ Len(stages) >= 2 =>
          /\ (stages[2] = "VALID") <=> (oracle[1] = "exit0")
          /\ stages[2] = "VALID" => (cleanPasses = 0 /\ Len(oracle) = 1)
    /\ pc = "done" =>
          /\ Len(stages) = 3
          /\ stages[2] = "INVALID" => (cleanPasses = 1 /\ Len(oracle) = 2)
    /\ pc \in {"clean", "loop", "postcheck"} =>
          (Len(stages) = 2 /\ stages[2] = "INVALID")

C9_PostCheckStep ==
    pc = "postcheck" =>
        /\ pc' = "done"
        /\ output' = output
        /\ changelog' = changelog
        /\ changes' = changes
        /\ cleanPasses' = cleanPasses

C9_NoStateRevisited == [](C9_StagesOk) /\ [][C9_PostCheckStep]_vars

C9_Witness ==
    /\ pc = "done"
    /\ oracle = <<"timeout", "nonzero">>
    /\ stages = <<"START", "INVALID", "DONE">>
    /\ cleanPasses = 1

\* C10: on the cleaning path, after each physical line: there is one emitted
\* statement per line read so far whose trimmed form ends with ".", in input
\* order; each is the continuation lines since the previous emission, each
\* followed by one space, then the terminator line without its newline; the
\* accumulator holds exactly the continuation lines read since the last
\* emission, so it is empty right after an emission; and the output holds
\* one line per emitted statement.
C10_OneStatementPerTerminator ==
    OnCleaningPath =>
        LET L == readlines(input)
            T == Terminators(L, line_number)
            last == LastTerminator(L, line_number)
        IN  /\ Len(emitted) = Cardinality(T)
            /\ \A k \in 1..Len(emitted) :
                  LET n == emitted[k].line
                      prev == IF k = 1 THEN 0 ELSE emitted[k - 1].line
                  IN  /\ n \in T
                      /\ Rank(T, n) = k
                      /\ emitted[k].acc = JoinContinuations(L, prev + 1, n - 1)
                      /\ emitted[k].statement =
                             JoinContinuations(L, prev + 1, n - 1)
                                 \o Chomp(L[n])
            /\ buffer = JoinContinuations(L, last + 1, line_number)
            /\ line_number \in T => buffer = <<>>
            /\ output = File(OutputOf(emitted, 1))
            /\ CountNewlines(output[1]) = Cardinality(T)

C10_Witness ==
    /\ pc = "loop"
    /\ input = MergedThenTail
    /\ line_number = 2
    /\ buffer = <<>>
    /\ Len(emitted) = 1
    /\ full_line = <<"<", "a", " ", "b", ">", " ", "<", "c", ">", " ",
                     "<", "d", "|", "e", ">", " ", ".">>
    /\ fixed_line = <<"<", "a", "%", "2", "0", "b", ">", " ", "<", "c", ">",
                      " ", "<", "d", "%", "7", "C", "e", ">", " ", ".">>

=============================================================================
